---- MODULE Spec2Model ----
(***************************************************************************)
(* Model of the schema/tree conversion engine of json-schema-editor:       *)
(* generateSchema (src/src/lib/schema-generator.ts) and parseSchema        *)
(* (schema-parser.ts), over property trees (types/schema.ts).              *)
(*                                                                         *)
(* JSON values are tagged records, so that the code's typeof, truthiness   *)
(* and Array.isArray tests are computed and not assumed.  A JSON object    *)
(* is the sequence of its entries in JavaScript's own-property order.      *)
(* A PropertyData node is a record whose optional fields are in its        *)
(* DOMAIN only when set (a field holding undefined counts as not set).     *)
(*                                                                         *)
(* Five specifications: Spec (a tree generated and parsed back),           *)
(* SpecParser (parseSchema on any document), SpecHook (the tree held by    *)
(* useSchemaBuilder under the operations of the hook and of the            *)
(* PropertyDocument components rendered over it), SpecMetadata (the        *)
(* metadata held by the hook under updateMetadata and loadSchema) and      *)
(* SpecDialog (the add and edit dialogs: useDialogManager,                 *)
(* PropertyEditDialog and usePropertyEditor over the tree).                *)
(***************************************************************************)
EXTENDS Integers, Sequences, FiniteSets, TLC

VARIABLES
  properties,       \* PropertyData[]: the input tree of generateSchema
  metadata,         \* SchemaMetadata, or Undefined when the argument is omitted
  includeMetadata,  \* the third argument of generateSchema
  schema,           \* the generated document, Undefined before generation
  parsed,           \* the ParsedSchema of the generated document, Undefined before
  pc,               \* "start" -> "generated" -> "parsed"
  call,             \* the last call made on the tree of useSchemaBuilder, NoCall when none
  dialog            \* the dialog open over the tree, its manager and its local copy,
                    \* NoDialog when none was opened

vars == <<properties, metadata, includeMetadata, schema, parsed, pc, call, dialog>>

NoCall == [op |-> "none"]

NoDialog == [kind |-> "none"]

----------------------------------------------------------------------------
(* JSON / JavaScript values *)

Undefined == [t |-> "undefined"]
JNull == [t |-> "null"]
JStr(s) == [t |-> "string", v |-> s]
JNum(n) == [t |-> "number", v |-> n]
JBool(b) == [t |-> "boolean", v |-> b]
JArr(s) == [t |-> "array", v |-> s]
JObj(entries) == [t |-> "object", v |-> entries]

Entry(k, v) == [k |-> k, v |-> v]

NoFields == [f \in {} |-> Undefined]

\* typeof x
TypeOf(x) ==
  IF x.t \in {"null", "array", "object"} THEN "object" ELSE x.t

\* Array.isArray(x)
IsArray(x) == x.t = "array"

\* ToBoolean(x), as in `if (x)`, `x && ...`, `x || ...`
Truthy(x) ==
  CASE x.t = "undefined" -> FALSE
    [] x.t = "null" -> FALSE
    [] x.t = "boolean" -> x.v
    [] x.t = "number" -> x.v # 0
    [] x.t = "string" -> x.v # ""
    [] OTHER -> TRUE

\* the value of a canonical array-index property name, -1 for any other name
ArrayIndex(k) ==
  CASE k = "0" -> 0
    [] k = "1" -> 1
    [] k = "2" -> 2
    [] k = "3" -> 3
    [] OTHER -> -1

IsArrayIndex(k) == ArrayIndex(k) >= 0

\* the property name of array index i
IndexKey(i) ==
  CASE i = 0 -> "0"
    [] i = 1 -> "1"
    [] i = 2 -> "2"
    [] i = 3 -> "3"
    [] OTHER -> "n"

HasKey(entries, k) == \E i \in 1..Len(entries) : entries[i].k = k

\* obj[k] on an object given by its entries
Lookup(entries, k) ==
  IF HasKey(entries, k)
  THEN entries[CHOOSE i \in 1..Len(entries) : entries[i].k = k].v
  ELSE Undefined

\* x.k for a non-null x: own property of an object, undefined otherwise
Get(x, k) == IF x.t = "object" THEN Lookup(x.v, k) ELSE Undefined

\* an assignment that never overwrites: the first value of a name stays
ObjectSetKeepFirst(entries, k, v) ==
  IF HasKey(entries, k) THEN entries
  ELSE IF IsArrayIndex(k)
  THEN LET n == Cardinality({i \in 1..Len(entries) :
                    /\ IsArrayIndex(entries[i].k)
                    /\ ArrayIndex(entries[i].k) < ArrayIndex(k)})
       IN SubSeq(entries, 1, n) \o <<Entry(k, v)>>
            \o SubSeq(entries, n + 1, Len(entries))
  ELSE Append(entries, Entry(k, v))

\* obj[k] = v: an existing property keeps its place; a new array-index name
\* goes among the index names in ascending order, ahead of every other name;
\* any other new name goes last (OrdinaryOwnPropertyKeys)
ObjectSet(entries, k, v) ==
  IF HasKey(entries, k)
  THEN [i \in 1..Len(entries) |->
          IF entries[i].k = k THEN Entry(k, v) ELSE entries[i]]
  ELSE IF IsArrayIndex(k)
  THEN LET n == Cardinality({i \in 1..Len(entries) :
                    /\ IsArrayIndex(entries[i].k)
                    /\ ArrayIndex(entries[i].k) < ArrayIndex(k)})
       IN SubSeq(entries, 1, n) \o <<Entry(k, v)>>
            \o SubSeq(entries, n + 1, Len(entries))
  ELSE Append(entries, Entry(k, v))

\* Object.entries(x) for a non-null x of typeof "object"
ObjectEntries(x) ==
  IF x.t = "object" THEN x.v
  ELSE IF x.t = "array"
  THEN [i \in 1..Len(x.v) |-> Entry(IndexKey(i - 1), x.v[i])]
  ELSE <<>>

\* an optional field of a PropertyData node
Has(p, f) == f \in DOMAIN p

\* `if (cond) obj[k] = v` on a fresh object literal
Opt(cond, k, v) == IF cond THEN <<Entry(k, v)>> ELSE <<>>

----------------------------------------------------------------------------
(* generateSchema: src/src/lib/schema-generator.ts *)

\* a generator that emits the pseudo-type as it is
schemaTypeVerbatim(prop) == prop.type

\* const schemaType = prop.type === "file" ? "string" : prop.type
schemaType(prop) == IF prop.type = "file" THEN "string" ELSE prop.type

\* a generator that skips no property
SkipsNone(prop) == FALSE

\* if (!prop.key) return;
SkipsProp(prop) == prop.key = ""

\* title, description
CommonFields(prop) ==
  Opt(Has(prop, "title") /\ prop.title # "", "title", JStr(prop.title))
  \o Opt(Has(prop, "description") /\ prop.description # "",
         "description", JStr(prop.description))

\* format: "filename" for the file pseudo-type
FileFormat(prop) == Opt(prop.type = "file", "format", JStr("filename"))

\* prop.enum && prop.enum.length > 0
EnumNonEmpty(prop) ==
  /\ Has(prop, "enum")
  /\ Truthy(prop.enum)
  /\ \/ prop.enum.t = "array" /\ Len(prop.enum.v) > 0
     \/ prop.enum.t = "string" /\ prop.enum.v # ""

\* a generator that copies the string constraints whatever the type is
StringConstraintsUngated(prop) ==
  Opt(Has(prop, "minLength"), "minLength", prop.minLength)
  \o Opt(Has(prop, "maxLength"), "maxLength", prop.maxLength)
  \o Opt(Has(prop, "pattern") /\ Truthy(prop.pattern), "pattern", prop.pattern)
  \o Opt(EnumNonEmpty(prop), "enum", prop.enum)

StringConstraints(prop) ==
  IF prop.type = "string"
  THEN Opt(Has(prop, "minLength"), "minLength", prop.minLength)
       \o Opt(Has(prop, "maxLength"), "maxLength", prop.maxLength)
       \o Opt(Has(prop, "pattern") /\ Truthy(prop.pattern), "pattern", prop.pattern)
       \o Opt(EnumNonEmpty(prop), "enum", prop.enum)
  ELSE <<>>

\* a generator that tests minimum and maximum for truthiness
NumericConstraintsTruthy(prop) ==
  IF prop.type = "number" \/ prop.type = "integer"
  THEN Opt(Has(prop, "minimum") /\ Truthy(prop.minimum), "minimum", prop.minimum)
       \o Opt(Has(prop, "maximum") /\ Truthy(prop.maximum), "maximum", prop.maximum)
  ELSE <<>>

NumericConstraints(prop) ==
  IF prop.type = "number" \/ prop.type = "integer"
  THEN Opt(Has(prop, "minimum"), "minimum", prop.minimum)
       \o Opt(Has(prop, "maximum"), "maximum", prop.maximum)
  ELSE <<>>

\* a generator that filters on p.required alone
RECURSIVE RequiredKeysAnyKey(_)
RequiredKeysAnyKey(props) ==
  IF props = <<>> THEN <<>>
  ELSE (IF Head(props).required THEN <<JStr(Head(props).key)>> ELSE <<>>)
         \o RequiredKeysAnyKey(Tail(props))

\* .filter((p) => p.required && p.key).map((p) => p.key)
RECURSIVE RequiredKeys(_)
RequiredKeys(props) ==
  IF props = <<>> THEN <<>>
  ELSE LET p == Head(props)
       IN (IF p.required /\ p.key # "" THEN <<JStr(p.key)>> ELSE <<>>)
            \o RequiredKeys(Tail(props))

\* the fallback `|| { type: prop.items.type }`
ItemsFallback(items) == JObj(<<Entry("type", JStr(items.type))>>)

RECURSIVE buildProperties(_), propSchema(_), ForEachProp(_, _, _)

\* propSchema.items = buildProperties([prop.items])[prop.items.key] || {...}
ItemsSchema(prop) ==
  LET built == Get(buildProperties(<<prop.items>>), prop.items.key)
  IN IF Truthy(built) THEN built ELSE ItemsFallback(prop.items)

ArrayConstraints(prop) ==
  IF prop.type = "array"
  THEN Opt(Has(prop, "minItems"), "minItems", prop.minItems)
       \o Opt(Has(prop, "maxItems"), "maxItems", prop.maxItems)
       \o Opt(Has(prop, "uniqueItems") /\ Truthy(prop.uniqueItems),
              "uniqueItems", prop.uniqueItems)
       \o (IF Has(prop, "items") THEN <<Entry("items", ItemsSchema(prop))>> ELSE <<>>)
  ELSE <<>>

\* prop.type === "object" && prop.children && prop.children.length > 0
HasChildren(prop) ==
  prop.type = "object" /\ Has(prop, "children") /\ Len(prop.children) > 0

ObjectFields(prop) ==
  IF HasChildren(prop)
  THEN <<Entry("properties", buildProperties(prop.children))>>
       \o Opt(Len(RequiredKeys(prop.children)) > 0,
              "required", JArr(RequiredKeys(prop.children)))
  ELSE <<>>

\* the fragment built for one property, its fields in assignment order
propSchema(prop) ==
  JObj(<<Entry("type", JStr(schemaType(prop)))>>
       \o CommonFields(prop)
       \o FileFormat(prop)
       \o StringConstraints(prop)
       \o NumericConstraints(prop)
       \o ArrayConstraints(prop)
       \o ObjectFields(prop))

\* props.forEach from index i on, over the result built so far
ForEachProp(props, i, result) ==
  IF i > Len(props) THEN result
  ELSE IF SkipsProp(props[i]) THEN ForEachProp(props, i + 1, result)
  ELSE ForEachProp(props, i + 1,
                   ObjectSet(result, props[i].key, propSchema(props[i])))

buildProperties(props) == JObj(ForEachProp(props, 1, <<>>))

\* a generator that copies the metadata whatever includeMetadata is
MetadataFieldsAlways(meta, include) ==
  IF meta # Undefined
  THEN Opt(meta.title # "", "title", JStr(meta.title))
       \o Opt(meta.description # "", "description", JStr(meta.description))
       \o Opt(meta.version # "", "version", JStr(meta.version))
  ELSE <<>>

\* the metadata fields copied onto the root
MetadataFields(meta, include) ==
  IF include /\ meta # Undefined
  THEN Opt(meta.title # "", "title", JStr(meta.title))
       \o Opt(meta.description # "", "description", JStr(meta.description))
       \o Opt(meta.version # "", "version", JStr(meta.version))
  ELSE <<>>

RootProperties(props) ==
  Opt(Len(buildProperties(props).v) > 0, "properties", buildProperties(props))

RootRequired(props) ==
  Opt(Len(RequiredKeys(props)) > 0, "required", JArr(RequiredKeys(props)))

generateSchema(props, meta, include) ==
  JObj(<<Entry("type", JStr("object"))>>
       \o MetadataFields(meta, include)
       \o RootProperties(props)
       \o RootRequired(props))

----------------------------------------------------------------------------
(* generatePropertyId: lib/id-generator.ts *)

\* `${Date.now()}-${Math.random()}`: the pair of the clock reading and the draw
generatePropertyId(now, random) == <<now, random>>

\* the readings Date.now() and the draws Math.random() can return during a parse
Times == {"t0"}
Randoms == {"r0", "r1"}

PropertyIds == {generatePropertyId(n, r) : n \in Times, r \in Randoms}

----------------------------------------------------------------------------
(* parseSchema: lib/schema-parser.ts *)

\* Array.isArray(schema.required) ? schema.required : []
RequiredList(sch) ==
  IF IsArray(Get(sch, "required")) THEN Get(sch, "required").v ELSE <<>>

\* requiredList.includes(key)
Includes(list, key) == \E i \in 1..Len(list) : list[i] = JStr(key)

\* schema.properties && typeof schema.properties === "object"
HasPropertiesObject(sch) ==
  Truthy(Get(sch, "properties")) /\ TypeOf(Get(sch, "properties")) = "object"

\* a parser that does not decode the file pseudo-type
propertyTypeDeclared(sch) ==
  IF TypeOf(Get(sch, "type")) = "string" THEN Get(sch, "type").v ELSE "string"

\* a parser that decodes every sub-schema of format filename as a file
propertyTypeByFormat(sch) ==
  IF Get(sch, "format") = JStr("filename") THEN "file"
  ELSE IF TypeOf(Get(sch, "type")) = "string" THEN Get(sch, "type").v
  ELSE "string"

\* the decoded type of a sub-schema, with the file pseudo-type
propertyType(sch) ==
  LET declared == IF TypeOf(Get(sch, "type")) = "string"
                  THEN Get(sch, "type").v ELSE "string"
  IN IF declared = "string" /\ Get(sch, "format") = JStr("filename")
     THEN "file" ELSE declared

\* property.type === "array" && schema.items && typeof schema.items === "object"
\*   && !Array.isArray(schema.items)
ParsesItems(sch) ==
  /\ propertyType(sch) = "array"
  /\ Truthy(Get(sch, "items"))
  /\ TypeOf(Get(sch, "items")) = "object"
  /\ ~IsArray(Get(sch, "items"))

\* the entries parseProperties maps over
ObjectValued(props) ==
  SelectSeq(ObjectEntries(props), LAMBDA e : TypeOf(e.v) = "object")

\* the synthetic map { item: schema.items }
ItemMap(sch) == JObj(<<Entry("item", Get(sch, "items"))>>)

\* the number of generatePropertyId() calls parseProperties(props) makes
RECURSIVE CountIds(_), CountIdsFrom(_, _)
CountIdsFrom(entries, i) ==
  IF i > Len(entries) THEN 0
  ELSE LET sch == entries[i].v
       IN 1 + (IF ParsesItems(sch) THEN CountIds(ItemMap(sch)) ELSE 0)
            + (IF HasPropertiesObject(sch) THEN CountIds(Get(sch, "properties")) ELSE 0)
            + CountIdsFrom(entries, i + 1)

CountIds(props) == CountIdsFrom(ObjectValued(props), 1)

\* title and description: kept when strings, undefined otherwise
ParsedCommon(sch) ==
  (IF TypeOf(Get(sch, "title")) = "string"
   THEN [title |-> Get(sch, "title").v] ELSE NoFields)
  @@ (IF TypeOf(Get(sch, "description")) = "string"
      THEN [description |-> Get(sch, "description").v] ELSE NoFields)

\* `if (schema.f !== undefined) property.f = schema.f`
CopyDefined(sch, f) ==
  IF Get(sch, f) # Undefined THEN (f :> Get(sch, f)) ELSE NoFields

\* `if (schema.f) property.f = schema.f`
CopyTruthy(sch, f) ==
  IF Truthy(Get(sch, f)) THEN (f :> Get(sch, f)) ELSE NoFields

\* the constraint fields, copied whatever the type is
ParsedConstraints(sch) ==
  CopyDefined(sch, "minLength") @@ CopyDefined(sch, "maxLength")
  @@ CopyTruthy(sch, "pattern")
  @@ (IF Truthy(Get(sch, "enum")) /\ IsArray(Get(sch, "enum"))
      THEN [enum |-> Get(sch, "enum")] ELSE NoFields)
  @@ CopyDefined(sch, "minimum") @@ CopyDefined(sch, "maximum")
  @@ CopyDefined(sch, "minItems") @@ CopyDefined(sch, "maxItems")
  @@ CopyTruthy(sch, "uniqueItems")

RECURSIVE parseProperties(_, _, _, _), ParseEntries(_, _, _, _, _),
          ParseProperty(_, _, _, _, _)

\* one entry of the map: ids[next] is its id, the ids after it go to its items
\* node and then to its children, in call order
ParseProperty(key, sch, requiredList, ids, next) ==
  LET itemCount == IF ParsesItems(sch) THEN CountIds(ItemMap(sch)) ELSE 0
      found == IF ParsesItems(sch)
               THEN SelectSeq(parseProperties(ItemMap(sch), <<>>, ids, next + 1),
                              LAMBDA p : p.key = "item")
               ELSE <<>>
  IN [id |-> ids[next],
      key |-> key,
      type |-> propertyType(sch),
      required |-> Includes(requiredList, key)]
     @@ ParsedCommon(sch)
     @@ ParsedConstraints(sch)
     @@ (IF Len(found) > 0 THEN [items |-> found[1]] ELSE NoFields)
     @@ (IF HasPropertiesObject(sch)
         THEN [children |-> parseProperties(Get(sch, "properties"),
                                            RequiredList(sch), ids,
                                            next + 1 + itemCount)]
         ELSE NoFields)

ParseEntries(entries, i, requiredList, ids, next) ==
  IF i > Len(entries) THEN <<>>
  ELSE <<ParseProperty(entries[i].k, entries[i].v, requiredList, ids, next)>>
       \o ParseEntries(entries, i + 1, requiredList, ids,
                       next + CountIdsFrom(entries, i) - CountIdsFrom(entries, i + 1))

\* props: a JSON value; ids[next], ids[next + 1], ... are the ids allocated
parseProperties(props, requiredList, ids, next) ==
  IF ~Truthy(props) THEN <<>>
  ELSE ParseEntries(ObjectValued(props), 1, requiredList, ids, next)

\* schema.title || schema.description || schema.version
HasMetadata(sch) ==
  Truthy(Get(sch, "title")) \/ Truthy(Get(sch, "description"))
    \/ Truthy(Get(sch, "version"))

ParsedMetadata(sch) ==
  [title |-> IF TypeOf(Get(sch, "title")) = "string"
             THEN Get(sch, "title").v ELSE "",
   description |-> IF TypeOf(Get(sch, "description")) = "string"
                   THEN Get(sch, "description").v ELSE "",
   version |-> IF TypeOf(Get(sch, "version")) = "string"
               THEN Get(sch, "version").v ELSE "1.0.0"]

\* result.metadata is Undefined when the document carries no metadata
parseSchema(sch, ids) ==
  [properties |-> IF HasPropertiesObject(sch)
                  THEN parseProperties(Get(sch, "properties"), RequiredList(sch), ids, 1)
                  ELSE <<>>,
   metadata |-> IF HasMetadata(sch) THEN ParsedMetadata(sch) ELSE Undefined]

\* parseProperties(props) raises a TypeError: an entry that is null passes the
\* typeof filter and `schema.type` is read from it
RECURSIVE PropertiesThrow(_)
PropertiesThrow(props) ==
  /\ Truthy(props)
  /\ \E i \in 1..Len(ObjectValued(props)) :
        LET sch == ObjectValued(props)[i].v
        IN \/ sch = JNull
           \/ ParsesItems(sch) /\ PropertiesThrow(ItemMap(sch))
           \/ HasPropertiesObject(sch) /\ PropertiesThrow(Get(sch, "properties"))

\* parseSchema(sch) raises a TypeError
ParseThrows(sch) ==
  \/ sch \in {JNull, Undefined}
  \/ HasPropertiesObject(sch) /\ PropertiesThrow(Get(sch, "properties"))

TypeError == [t |-> "TypeError"]

\* the number of ids parseSchema(sch) allocates
IdsNeeded(sch) ==
  IF HasPropertiesObject(sch) THEN CountIds(Get(sch, "properties")) ELSE 0

----------------------------------------------------------------------------
(* The inputs: property trees and metadata records *)

MaxProps == 2      \* longest top-level sequence of the sibling family
MaxChildren == 2   \* longest children sequence of the sibling family
MaxDepth == 2      \* deepest nesting of the nesting family

Types ==
  {"string", "number", "integer", "boolean", "object", "array", "null", "file"}

Keys == {"", "age", "b", "1"}

Leaf(k, ty, req) == [key |-> k, type |-> ty, required |-> req]

SeqsUpTo(S, n) == UNION {[1..m -> S] : m \in 0..n}

TextProfiles ==
  {NoFields, [title |-> "T"], [title |-> ""], [description |-> "D"],
   [description |-> ""], [title |-> "T", description |-> "D"]}

ConstraintProfiles ==
  {[minLength |-> JNum(0), maxLength |-> JNum(2)],
   [pattern |-> JStr("p")],
   [pattern |-> JStr("")],
   [enum |-> JArr(<<JStr("x")>>)],
   [enum |-> JArr(<<>>)],
   [minimum |-> JNum(0), maximum |-> JNum(120)],
   [minItems |-> JNum(0), maxItems |-> JNum(2)],
   [maxLength |-> JNum(0), maximum |-> JNum(0), maxItems |-> JNum(0)],
   [uniqueItems |-> JBool(TRUE)],
   [uniqueItems |-> JBool(FALSE)],
   [children |-> <<>>],
   [children |-> <<Leaf("b", "string", TRUE)>>],
   [items |-> Leaf("item", "string", FALSE)]}

\* one node, every type against every profile of optional fields
RichNodes(keys) ==
  {Leaf(k, ty, r) @@ extra :
     k \in keys, ty \in Types, r \in BOOLEAN,
     extra \in TextProfiles \cup ConstraintProfiles}

AsChild(n) == <<Leaf("o", "object", TRUE) @@ [children |-> <<n>>]>>
AsItems(n) == <<Leaf("a", "array", FALSE) @@ [items |-> n]>>

RichTrees ==
  {<<n>> : n \in RichNodes({"", "age", "1"})}
    \cup {AsChild(n) : n \in RichNodes({"", "age", "1"})}
    \cup {AsItems(n) : n \in RichNodes({"", "age", "item"})}

\* siblings: every key against every key, required or not
SiblingNodes ==
  {Leaf(k, ty, r) : k \in Keys, ty \in {"string", "integer"}, r \in BOOLEAN}

Parents ==
  {Leaf("o", "object", TRUE), Leaf("o", "string", FALSE), Leaf("", "object", TRUE)}

SiblingTrees ==
  SeqsUpTo(SiblingNodes, MaxProps)
    \cup {<<w @@ [children |-> cs]>> :
            w \in Parents, cs \in SeqsUpTo(SiblingNodes, MaxChildren)}
    \cup {AsItems(Leaf("item", "object", FALSE) @@ [children |-> cs]) :
            cs \in SeqsUpTo(SiblingNodes, MaxChildren)}

\* nesting: objects in arrays in objects, with and without keys
RECURSIVE NestedNodes(_)
NestedNodes(d) ==
  IF d = 0
  THEN {Leaf(k, ty, r) : k \in {"", "b"}, ty \in {"string", "file"}, r \in BOOLEAN}
  ELSE NestedNodes(d - 1)
         \cup {Leaf(k, "object", TRUE) @@ [children |-> <<n>>] :
                 k \in {"", "b"}, n \in NestedNodes(d - 1)}
         \cup {Leaf(k, "array", FALSE) @@ [items |-> n] :
                 k \in {"", "b"}, n \in NestedNodes(d - 1)}
         \cup {Leaf(k, "array", FALSE) @@ [items |-> [n EXCEPT !.key = "item"]] :
                 k \in {"", "b"}, n \in NestedNodes(d - 1)}

NestedTrees == {<<n>> : n \in NestedNodes(MaxDepth)}

Trees == RichTrees \cup SiblingTrees \cup NestedTrees

\* the ids of an input tree: the path of each node (0 for an items slot)
RECURSIVE LabelNode(_, _), LabelSeq(_, _)
LabelNode(n, path) ==
  [f \in DOMAIN n \cup {"id"} |->
     IF f = "id" THEN path
     ELSE IF f = "children" THEN LabelSeq(n.children, path)
     ELSE IF f = "items" THEN LabelNode(n.items, path \o <<0>>)
     ELSE n[f]]

LabelSeq(s, path) == [i \in 1..Len(s) |-> LabelNode(s[i], path \o <<i>>)]

Metadatas ==
  {[title |-> t, description |-> d, version |-> v] :
     t \in {"", "T"}, d \in {"", "D"}, v \in {"", "2.0", "1.0.0"}}

ScenarioMetadata == [title |-> "T", description |-> "", version |-> ""]

\* every tree under the scenario's metadata, and every metadata argument
\* (omitted included) with and without includeMetadata over two small trees
Inputs ==
  {<<tr, ScenarioMetadata, TRUE>> : tr \in Trees}
    \cup {<<tr, m, inc>> :
            tr \in {<<>>, <<Leaf("b", "string", TRUE)>>},
            m \in Metadatas \cup {Undefined}, inc \in BOOLEAN}

----------------------------------------------------------------------------
(* The conversions as a state machine *)

Init ==
  /\ \E in \in Inputs :
       /\ properties = LabelSeq(in[1], <<>>)
       /\ metadata = in[2]
       /\ includeMetadata = in[3]
  /\ schema = Undefined
  /\ parsed = Undefined
  /\ pc = "start"
  /\ call = NoCall
  /\ dialog = NoDialog

\* schema = generateSchema(properties, metadata, includeMetadata)
Generate ==
  /\ pc = "start"
  /\ schema' = generateSchema(properties, metadata, includeMetadata)
  /\ pc' = "generated"
  /\ UNCHANGED <<properties, metadata, includeMetadata, parsed, call, dialog>>

\* parsed = parseSchema(schema), each property's id a fresh draw
Parse ==
  /\ pc = "generated"
  /\ \E ids \in [1..IdsNeeded(schema) -> PropertyIds] :
       parsed' = IF ParseThrows(schema) THEN TypeError ELSE parseSchema(schema, ids)
  /\ pc' = "parsed"
  /\ UNCHANGED <<properties, metadata, includeMetadata, schema, call, dialog>>

Next == Generate \/ Parse

Spec == Init /\ [][Next]_vars

----------------------------------------------------------------------------
(* Positions of a document and of a tree.  A path is a sequence of steps,  *)
(* <<"p", k>> into the entry k of a `properties` map and <<"i", "">> into  *)
(* an `items` sub-schema.                                                  *)

ItemsStep == <<"i", "">>

\* the paths of the fragments below one object of the document
RECURSIVE PathsBelow(_, _)
PathsBelow(obj, prefix) ==
  LET props == ObjectEntries(Get(obj, "properties"))
      viaProps == UNION {LET here == Append(prefix, <<"p", props[i].k>>)
                         IN {here} \cup PathsBelow(props[i].v, here) :
                         i \in 1..Len(props)}
      viaItems == IF Get(obj, "items") # Undefined
                  THEN {Append(prefix, ItemsStep)}
                         \cup PathsBelow(Get(obj, "items"), Append(prefix, ItemsStep))
                  ELSE {}
  IN viaProps \cup viaItems

DocPaths(doc) == PathsBelow(doc, <<>>)

\* the fragment of the document at a path
RECURSIVE FragAt(_, _)
FragAt(obj, path) ==
  IF path = <<>> THEN obj
  ELSE IF Head(path) = ItemsStep THEN FragAt(Get(obj, "items"), Tail(path))
  ELSE FragAt(Get(Get(obj, "properties"), Head(path)[2]), Tail(path))

NoNode == [key |-> "", type |-> "none", required |-> FALSE]

\* the node of a sequence that owns the slot of key k: the last one with that key
OwnerOf(seq, k) ==
  IF \E i \in 1..Len(seq) : seq[i].key = k
  THEN seq[CHOOSE i \in 1..Len(seq) :
             seq[i].key = k /\ \A j \in (i + 1)..Len(seq) : seq[j].key # k]
  ELSE NoNode

\* the node of a tree whose fragment stands at a path of the document
RECURSIVE NodeBelow(_, _)
NodeBelow(n, path) ==
  IF path = <<>> THEN n
  ELSE IF Head(path) = ItemsStep
  THEN IF Has(n, "items") THEN NodeBelow(n.items, Tail(path)) ELSE NoNode
  ELSE IF Has(n, "children")
  THEN NodeBelow(OwnerOf(n.children, Head(path)[2]), Tail(path))
  ELSE NoNode

NodeAt(seq, path) == NodeBelow(OwnerOf(seq, Head(path)[2]), Tail(path))

\* a tree without its ids
RECURSIVE StripNode(_), StripSeq(_)
StripNode(n) ==
  [f \in DOMAIN n \ {"id"} |->
     IF f = "children" THEN StripSeq(n.children)
     ELSE IF f = "items" THEN StripNode(n.items)
     ELSE n[f]]

StripSeq(s) == [i \in 1..Len(s) |-> StripNode(s[i])]

\* every node of a tree, at any depth
RECURSIVE NodesOf(_)
NodesOf(seq) ==
  UNION {{seq[i]}
           \cup (IF Has(seq[i], "children") THEN NodesOf(seq[i].children) ELSE {})
           \cup (IF Has(seq[i], "items") THEN NodesOf(<<seq[i].items>>) ELSE {}) :
         i \in 1..Len(seq)}

----------------------------------------------------------------------------
(* C1: the round trip of the tree *)

\* the constructs C1 names: non-empty keys and the eight types, at every depth
Supported(seq) ==
  \A n \in NodesOf(seq) : n.key # "" /\ n.type \in Types

\* a tree the generator loses nothing of
RECURSIVE CanonicalNode(_), CanonicalSeq(_)
CanonicalNode(n) ==
  /\ n.key # "" /\ n.type \in Types
  /\ Has(n, "title") => n.title # ""
  /\ Has(n, "description") => n.description # ""
  /\ (Has(n, "minLength") \/ Has(n, "maxLength")) => n.type = "string"
  /\ Has(n, "pattern") => n.type = "string" /\ Truthy(n.pattern)
  /\ Has(n, "enum") => n.type = "string" /\ IsArray(n.enum) /\ Len(n.enum.v) > 0
  /\ (Has(n, "minimum") \/ Has(n, "maximum")) => n.type \in {"number", "integer"}
  /\ (Has(n, "minItems") \/ Has(n, "maxItems")) => n.type = "array"
  /\ Has(n, "uniqueItems") => n.type = "array" /\ n.uniqueItems = JBool(TRUE)
  /\ Has(n, "items") =>
       /\ n.type = "array"
       /\ n.items.key = "item" /\ ~n.items.required
       /\ CanonicalNode(n.items)
  /\ Has(n, "children") =>
       /\ n.type = "object"
       /\ Len(n.children) > 0
       /\ CanonicalSeq(n.children)

CanonicalSeq(seq) ==
  /\ \A i \in 1..Len(seq) : CanonicalNode(seq[i]) /\ ~IsArrayIndex(seq[i].key)
  /\ \A i, j \in 1..Len(seq) : i # j => seq[i].key # seq[j].key

----------------------------------------------------------------------------
(* C2: the round trip of the metadata *)

\* C2 as stated: parseSchema(generateSchema(tree, m, true)).metadata = m
C2_MetadataRoundTrip ==
  (pc = "parsed" /\ includeMetadata /\ metadata # Undefined)
    => parsed.metadata = metadata

----------------------------------------------------------------------------
(* C3: the file pseudo-type *)

IsFileFragment(f) ==
  Get(f, "type") = JStr("string") /\ Get(f, "format") = JStr("filename")

\* C3: wherever the fragment of a node of type file and non-empty key stands
\* in the document it has type string and format filename, and the property
\* parsed from it has type file; under a properties map it keeps its key
C3_FileRoundTrip ==
  pc # "start" =>
    \A path \in DocPaths(schema) :
      LET n == NodeAt(properties, path)
      IN (n.type = "file" /\ n.key # "") =>
           /\ IsFileFragment(FragAt(schema, path))
           /\ pc = "parsed" =>
                /\ NodeAt(parsed.properties, path).type = "file"
                /\ path[Len(path)] # ItemsStep =>
                     NodeAt(parsed.properties, path).key = n.key

\* a required file property among the children of an object, parsed back
C3_Witness ==
  /\ pc = "parsed"
  /\ \E path \in DocPaths(schema) :
       /\ Len(path) = 2 /\ path[2] # ItemsStep
       /\ NodeAt(properties, path).type = "file"
       /\ NodeAt(properties, path).key # ""
       /\ NodeAt(properties, path).required

----------------------------------------------------------------------------
(* C4 to C7: what the document holds at every level *)

\* the root and every fragment of the document
AllObjects(doc) == {doc} \cup {FragAt(doc, path) : path \in DocPaths(doc)}

\* an object node whose fragment buildProperties builds and fills
IsFilledObject(n) ==
  n.key # "" /\ n.type = "object" /\ Has(n, "children") /\ Len(n.children) > 0

\* the levels of the document: a sequence of properties and the object that
\* carries its `properties` and `required`: the root, and the fragment of
\* every keyed object property that has at least one child
Levels(seq, doc) ==
  {<<seq, doc>>}
    \cup {<<NodeAt(seq, path).children, FragAt(doc, path)>> :
            path \in {q \in DocPaths(doc) : IsFilledObject(NodeAt(seq, q))}}

\* C4 as stated: no fragment of the document, at any depth, has type file
C4_NoFileType ==
  pc # "start" =>
    \A path \in DocPaths(schema) : Get(FragAt(schema, path), "type") # JStr("file")

\* C5: no object of the document has an entry "" in its properties map or ""
\* in its required array, and every non-empty key of a level has its entry
C5_EmptyKeysOmitted ==
  pc # "start" =>
    /\ \A obj \in AllObjects(schema) :
         /\ ~HasKey(ObjectEntries(Get(obj, "properties")), "")
         /\ IsArray(Get(obj, "required")) =>
              \A i \in 1..Len(Get(obj, "required").v) :
                Get(obj, "required").v[i] # JStr("")
    /\ \A lv \in Levels(properties, schema) :
         \A i \in 1..Len(lv[1]) :
           lv[1][i].key # "" =>
             HasKey(ObjectEntries(Get(lv[2], "properties")), lv[1][i].key)

\* a nested level with a required property of empty key beside a keyed one
C5_Witness ==
  /\ pc # "start"
  /\ \E lv \in Levels(properties, schema) :
       /\ lv[2] # schema
       /\ \E i, j \in 1..Len(lv[1]) :
            /\ lv[1][i].key = "" /\ lv[1][i].required
            /\ lv[1][j].key # ""

\* the keys a level requires, in sequence order
ExpectedRequired(seq) ==
  LET idx == SelectSeq([i \in 1..Len(seq) |-> i],
                       LAMBDA i : seq[i].required /\ seq[i].key # "")
  IN [j \in 1..Len(idx) |-> JStr(seq[idx[j]].key)]

C7_NoEmptyContainers ==
  pc # "start" =>
    /\ Get(schema, "type") = JStr("object")
    /\ \A obj \in AllObjects(schema) :
         /\ Get(obj, "properties") # JObj(<<>>)
         /\ Get(obj, "required") # JArr(<<>>)

----------------------------------------------------------------------------
(* C8: the metadata on the root *)

\* C8: the root carries title, description, version exactly when
\* includeMetadata is set, metadata is given and the field is non-empty
C8_MetadataCopied ==
  pc # "start" =>
    \A f \in {"title", "description", "version"} :
      Get(schema, f) =
        IF includeMetadata /\ metadata # Undefined /\ metadata[f] # ""
        THEN JStr(metadata[f]) ELSE Undefined

\* a full metadata record generated with includeMetadata false
C8_Witness ==
  /\ pc = "generated" /\ ~includeMetadata
  /\ metadata # Undefined
  /\ metadata.title # "" /\ metadata.description # "" /\ metadata.version # ""

----------------------------------------------------------------------------
(* C9, C10: the constraint fields of a fragment *)

Carries(f, fields) == \E k \in fields : Get(f, k) # Undefined

\* C9: a fragment carries the fields of a type only when its node has the type
C9_TypeGated ==
  pc # "start" =>
    \A path \in DocPaths(schema) :
      LET n == NodeAt(properties, path)
          f == FragAt(schema, path)
      IN /\ Carries(f, {"minLength", "maxLength", "pattern", "enum"})
              => n.type = "string"
         /\ Carries(f, {"minimum", "maximum"}) => n.type \in {"number", "integer"}
         /\ Carries(f, {"minItems", "maxItems", "uniqueItems", "items"})
              => n.type = "array"
         /\ Carries(f, {"properties", "required"}) => n.type = "object"

\* a file property with maxLength, maximum and maxItems set has its fragment
C9_Witness ==
  /\ pc # "start"
  /\ \E path \in DocPaths(schema) :
       LET n == NodeAt(properties, path)
       IN /\ n.type = "file"
          /\ Has(n, "maxLength") /\ Has(n, "maximum") /\ Has(n, "maxItems")

ZeroKept(n, f, field, types) ==
  (n.type \in types /\ Has(n, field) /\ n[field] = JNum(0))
    => Get(f, field) = JNum(0)

ScenarioTree ==
  <<Leaf("age", "integer", TRUE) @@ [minimum |-> JNum(0), maximum |-> JNum(120)]>>

ScenarioDocument ==
  JObj(<<Entry("type", JStr("object")),
         Entry("title", JStr("T")),
         Entry("properties",
               JObj(<<Entry("age",
                            JObj(<<Entry("type", JStr("integer")),
                                   Entry("minimum", JNum(0)),
                                   Entry("maximum", JNum(120))>>))>>)),
         Entry("required", JArr(<<JStr("age")>>))>>)

----------------------------------------------------------------------------
(* C11: properties that share a key *)

\* the number of entries of a map under one name
EntriesNamed(entries, k) == Cardinality({i \in 1..Len(entries) : entries[i].k = k})

\* C11: at every level, a non-empty key that two properties of the sequence
\* share has a single entry in the `properties` map, and that entry is the
\* fragment built from the later of them alone
C11_LaterKeyWins ==
  pc # "start" =>
    \A lv \in Levels(properties, schema) :
      \A i, j \in 1..Len(lv[1]) :
        (/\ i < j
         /\ lv[1][i].key = lv[1][j].key /\ lv[1][j].key # ""
         /\ \A m \in (j + 1)..Len(lv[1]) : lv[1][m].key # lv[1][j].key)
          => /\ EntriesNamed(ObjectEntries(Get(lv[2], "properties")), lv[1][j].key) = 1
             /\ Get(Get(lv[2], "properties"), lv[1][j].key)
                  = Get(buildProperties(<<lv[1][j]>>), lv[1][j].key)

\* two children of one object share a key, with different types and
\* different required flags
C11_Witness ==
  /\ pc # "start"
  /\ \E lv \in Levels(properties, schema) :
       /\ lv[2] # schema
       /\ Len(lv[1]) = 2
       /\ lv[1][1].key = lv[1][2].key /\ lv[1][2].key # ""
       /\ lv[1][1].type # lv[1][2].type
       /\ lv[1][1].required # lv[1][2].required

----------------------------------------------------------------------------
(* C12: the items sub-schema of an array *)

\* C12 as stated: the `items` of the fragment of an array property whose
\* items node is set is the fragment built from the items node by the rules
\* of any property, whatever the key of the items node is
C12_ItemsIsFragment ==
  pc # "start" =>
    \A path \in DocPaths(schema) :
      LET n == NodeAt(properties, path)
      IN (n.type = "array" /\ Has(n, "items"))
           => Get(FragAt(schema, path), "items") = propSchema(n.items)

----------------------------------------------------------------------------
(* The parser on any document: parseSchema applied to JSON objects that   *)
(* carry any JSON value under the fields it reads                         *)

MaxNest == 2   \* deepest nesting of sub-schemas in a document

\* one value of every kind JSON has, falsy and truthy
JsonValues ==
  {JNull, JBool(TRUE), JBool(FALSE), JNum(0), JNum(5), JStr(""), JStr("x"),
   JArr(<<>>), JArr(<<JStr("a")>>), JObj(<<>>)}

\* the fields parseSchema and parseProperties read for tree and metadata
FieldNames ==
  {"properties", "required", "items", "type", "title", "description",
   "version", "format"}

Field(f, v) == IF v = Undefined THEN <<>> ELSE <<Entry(f, v)>>

\* `type` against `format`, each absent, of the expected kind or of another
TypeFormats ==
  {JObj(Field("type", ty) \o Field("format", fmt)) :
     ty \in {Undefined, JStr("string"), JStr("number"), JStr("file"), JStr("x"),
             JNum(5), JNull, JArr(<<JStr("string")>>)},
     fmt \in {Undefined, JStr("filename"), JStr("date"), JNum(5)}}

\* two entries of one map under every `required`
RequiredForms ==
  {JObj(<<Entry("properties", JObj(<<Entry("a", JObj(<<>>)), Entry("b", JObj(<<>>))>>))>>
        \o Field("required", r)) :
     r \in JsonValues
           \cup {Undefined, JArr(<<JStr("b")>>), JArr(<<JNum(5), JStr("a"), JStr("b")>>)}}

\* an entry of any kind beside an entry that is a sub-schema, in a map and
\* in an array
EntryForms ==
  {JObj(<<Entry("properties",
              JObj(<<Entry("foo", v),
                     Entry("bar", JObj(<<Entry("type", JStr("number"))>>))>>))>>) :
     v \in JsonValues}
    \cup {JObj(<<Entry("properties", JArr(<<v>>))>>) : v \in JsonValues}

\* the sub-schemas nested at most d deep
RECURSIVE SubSchemas(_)
SubSchemas(d) ==
  LET below == IF d = 0 THEN {} ELSE SubSchemas(d - 1)
      values == JsonValues \cup below
  IN {JObj(<<Entry(f, v)>>) : f \in FieldNames, v \in JsonValues}
       \cup TypeFormats
       \cup RequiredForms
       \cup EntryForms
       \cup {JObj(<<Entry("type", JStr("array")), Entry("items", v)>>) :
               v \in values \cup {JArr(<<s, s>>) : s \in below}}
       \cup {JObj(<<Entry("properties", JObj(<<Entry("c", v)>>))>>) : v \in values}

\* title, description and version of the root, each absent or of any kind
MetadataForms ==
  {JObj(Field("title", t) \o Field("description", d) \o Field("version", v)) :
     t, d, v \in JsonValues \cup {Undefined}}

Documents == SubSchemas(MaxNest) \cup MetadataForms

InitDocument ==
  /\ properties = <<>>
  /\ metadata = Undefined
  /\ includeMetadata = FALSE
  /\ schema \in Documents
  /\ parsed = Undefined
  /\ pc = "document"
  /\ call = NoCall
  /\ dialog = NoDialog

\* parsed = parseSchema(schema) for a document given from outside
ParseDocument ==
  /\ pc = "document"
  /\ \E ids \in [1..IdsNeeded(schema) -> PropertyIds] :
       parsed' = IF ParseThrows(schema) THEN TypeError ELSE parseSchema(schema, ids)
  /\ pc' = "parsed"
  /\ UNCHANGED <<properties, metadata, includeMetadata, schema, call, dialog>>

SpecParser == InitDocument /\ [][ParseDocument]_vars

----------------------------------------------------------------------------
(* C13: the parser raises no error *)

\* C13 as stated: parseSchema returns a result for every document that is an
\* object, whatever JSON values stand under the fields it reads
C13_NeverThrows ==
  pc = "parsed" => parsed # TypeError

----------------------------------------------------------------------------
(* C14: entries that are no sub-schemas *)

\* the root's `properties` map and the map of every child parsed from it,
\* each with the properties parsed from it
RECURSIVE MapsBelow(_, _)
MapsBelow(props, seq) ==
  {<<props, seq>>}
    \cup UNION {LET e == ObjectValued(props)[i]
                IN IF HasPropertiesObject(e.v) /\ Has(seq[i], "children")
                   THEN MapsBelow(Get(e.v, "properties"), seq[i].children)
                   ELSE {} :
                i \in 1..Len(seq)}

ParsedMaps ==
  IF pc = "parsed" /\ parsed # TypeError /\ HasPropertiesObject(schema)
  THEN MapsBelow(Get(schema, "properties"), parsed.properties)
  ELSE {}

KeysOf(seq) == {seq[i].key : i \in 1..Len(seq)}

\* C14 as stated: an entry of a `properties` object whose value is not a JSON
\* object yields no property, every entry that is one yields a property, and
\* an array sub-schema whose `items` is an array yields a property without
\* items
C14_NonObjectsDropped ==
  \A m \in {q \in ParsedMaps : q[1].t = "object"} :
    \A i \in 1..Len(ObjectEntries(m[1])) :
      LET e == ObjectEntries(m[1])[i]
      IN /\ e.v.t # "object" => e.k \notin KeysOf(m[2])
         /\ e.v.t = "object" =>
              \E j \in 1..Len(m[2]) :
                /\ m[2][j].key = e.k
                /\ (Get(e.v, "type") = JStr("array") /\ IsArray(Get(e.v, "items")))
                     => ~Has(m[2][j], "items")

----------------------------------------------------------------------------
(* C15: the type of a parsed property *)

\* subschema.type when it is a JSON string, "string" otherwise
DeclaredType(sch) ==
  IF Get(sch, "type").t = "string" THEN Get(sch, "type").v ELSE "string"

\* C15: the property parsed from a sub-schema has the declared type, or file
\* when the declared type is string and the format is filename, and no format
C15_ParsedType ==
  \A m \in ParsedMaps :
    \A i \in 1..Len(m[2]) :
      LET sch == ObjectValued(m[1])[i].v
      IN /\ m[2][i].type
              = IF DeclaredType(sch) = "string" /\ Get(sch, "format") = JStr("filename")
                THEN "file" ELSE DeclaredType(sch)
         /\ ~Has(m[2][i], "format")

\* a sub-schema of type number and format filename, parsed as a number
C15_Witness ==
  \E m \in ParsedMaps :
    \E i \in 1..Len(m[2]) :
      LET sch == ObjectValued(m[1])[i].v
      IN /\ Get(sch, "type") = JStr("number")
         /\ Get(sch, "format") = JStr("filename")
         /\ m[2][i].type = "number"

----------------------------------------------------------------------------
(* C16: the metadata of a parsed document *)

IsString(x) == x.t = "string"

\* C16 as stated: the result has a metadata record exactly when the document
\* carries title, description or version as a string, with the fields that
\* are no strings defaulted to '', '' and '1.0.0'
C16_MetadataWhenStrings ==
  (pc = "parsed" /\ parsed # TypeError) =>
    parsed.metadata =
      IF \E f \in {"title", "description", "version"} : IsString(Get(schema, f))
      THEN [title |-> IF IsString(Get(schema, "title"))
                      THEN Get(schema, "title").v ELSE "",
            description |-> IF IsString(Get(schema, "description"))
                            THEN Get(schema, "description").v ELSE "",
            version |-> IF IsString(Get(schema, "version"))
                        THEN Get(schema, "version").v ELSE "1.0.0"]
      ELSE Undefined

----------------------------------------------------------------------------
(* useSchemaBuilder and the PropertyDocument components over its tree.    *)
(* A position is a path: the index of a top-level property, then the      *)
(* index of a child, or 0 for the items slot, at each step down.          *)

MaxNodes == 2   \* most nodes the tree holds, all depths counted

HookTypes == {"string", "object", "array"}

HookIds == PropertyIds

\* Date.now().toString() + Math.random(): the id of an added item schema
itemSchemaId(now, random) == <<now \o random>>

EmptyMetadata == [title |-> "", description |-> "", version |-> ""]

\* the property addProperty() returns, as the dialog hands it on: a title
\* typed in (the dialog saves no property without one), the key made of it
\* and a type chosen
NewProperty(id, ty) ==
  [id |-> id, key |-> "a", title |-> "A", type |-> ty, required |-> FALSE]

\* an edit that drops the children and the items with the type chosen
EditedCleared(property, ty) ==
  [f \in (DOMAIN property \cup {"title"}) \ {"children", "items"} |->
     IF f = "type" THEN ty
     ELSE IF f = "title" /\ ~Has(property, "title") THEN "A"
     ELSE property[f]]

\* a property as its edit dialog saves it: another type chosen, and a title
\* typed in when it had none
Edited(property, ty) ==
  [f \in DOMAIN property \cup {"title"} |->
     IF f = "type" THEN ty
     ELSE IF f = "title" /\ ~Has(property, "title") THEN "A"
     ELSE property[f]]

\* the item schema the edit dialog adds to an array
NewItemSchema(id) == [id |-> id, key |-> "item", type |-> "string", required |-> FALSE]

RECURSIVE CountNodes(_)
CountNodes(seq) ==
  IF seq = <<>> THEN 0
  ELSE 1 + (IF Has(Head(seq), "children") THEN CountNodes(Head(seq).children) ELSE 0)
         + (IF Has(Head(seq), "items") THEN CountNodes(<<Head(seq).items>>) ELSE 0)
         + CountNodes(Tail(seq))

\* hasChildren: the children of a property are rendered
RendersChildren(property) ==
  property.type = "object" /\ Has(property, "children") /\ Len(property.children) > 0

\* property.type === "array" && property.items: the items node is rendered
RendersItems(property) == property.type = "array" /\ Has(property, "items")

\* the positions below a property that have a PropertyDocument
RECURSIVE RenderedBelow(_, _)
RenderedBelow(property, path) ==
  {path}
    \cup (IF RendersChildren(property)
          THEN UNION {RenderedBelow(property.children[j], Append(path, j)) :
                        j \in 1..Len(property.children)}
          ELSE {})
    \cup (IF RendersItems(property)
          THEN RenderedBelow(property.items, Append(path, 0))
          ELSE {})

RenderedPaths(seq) == UNION {RenderedBelow(seq[i], <<i>>) : i \in 1..Len(seq)}

\* the property a PropertyDocument at a position was rendered with
RECURSIVE PropertyBelow(_, _)
PropertyBelow(property, steps) ==
  IF steps = <<>> THEN property
  ELSE IF Head(steps) = 0 THEN PropertyBelow(property.items, Tail(steps))
  ELSE PropertyBelow(property.children[Head(steps)], Tail(steps))

PropertyAt(seq, path) == PropertyBelow(seq[Head(path)], Tail(path))

Parent(path) == SubSeq(path, 1, Len(path) - 1)
Last(path) == path[Len(path)]

\* an updateProperty that appends whether or not the id is there
updatePropertyAppend(prev, id, updated) == Append(prev, updated)

\* setProperties(prev => ...) of updateProperty(id, updated)
updateProperty(prev, id, updated) ==
  IF \E i \in 1..Len(prev) : prev[i].id = id
  THEN [i \in 1..Len(prev) |-> IF prev[i].id = id THEN updated ELSE prev[i]]
  ELSE Append(prev, updated)

\* setProperties(prev => prev.filter(p => p.id !== id))
deleteProperty(prev, id) == SelectSeq(prev, LAMBDA p : p.id # id)

\* what updateChild(childId, updated) hands to onUpdate
updateChild(property, childId, updated) ==
  [property EXCEPT !.children =
     [j \in 1..Len(@) |-> IF @[j].id = childId THEN updated ELSE @[j]]]

\* what deleteChild(childId) hands to onUpdate
deleteChild(property, childId) ==
  [property EXCEPT !.children = SelectSeq(@, LAMBDA c : c.id # childId)]

\* { ...property, items: undefined }
WithoutItems(property) == [f \in DOMAIN property \ {"items"} |-> property[f]]

\* { ...property, items: updated }
WithItems(property, updated) ==
  [f \in DOMAIN property \cup {"items"} |->
     IF f = "items" THEN updated ELSE property[f]]

\* { ...property, children: [...(property.children || []), child] }
WithChild(property, child) ==
  [f \in DOMAIN property \cup {"children"} |->
     IF f = "children"
     THEN (IF Has(property, "children") THEN property.children ELSE <<>>) \o <<child>>
     ELSE property[f]]

\* the onUpdate chain: what the PropertyDocument of `property` hands to its
\* own onUpdate when the PropertyDocument `steps` below it reports `updated`
RECURSIVE onUpdate(_, _, _)
onUpdate(property, steps, updated) ==
  IF steps = <<>> THEN updated
  ELSE IF Head(steps) = 0
  THEN WithItems(property, onUpdate(property.items, Tail(steps), updated))
  ELSE updateChild(property, property.children[Head(steps)].id,
                   onUpdate(property.children[Head(steps)], Tail(steps), updated))

\* the tree after the PropertyDocument at a position reports `updated`
Reported(seq, path, updated) ==
  updateProperty(seq, seq[Head(path)].id,
                 onUpdate(seq[Head(path)], Tail(path), updated))

\* a sub-schema with a title, of a type, with more fields
Titled(ty, more) ==
  JObj(<<Entry("type", JStr(ty)), Entry("title", JStr("A"))>> \o more)

\* the documents handed to loadSchema: an array of strings, a string beside
\* an object, and a document parseSchema raises on
HookDocuments ==
  {JObj(<<Entry("type", JStr("object")),
          Entry("properties",
                JObj(<<Entry("a", Titled("array",
                                         <<Entry("items", Titled("string", <<>>))>>))>>))>>),
   JObj(<<Entry("type", JStr("object")),
          Entry("properties",
                JObj(<<Entry("a", Titled("string", <<>>)),
                       Entry("b", Titled("object", <<>>))>>))>>),
   JObj(<<Entry("properties", JObj(<<Entry("a", JNull)>>))>>)}

InitHook ==
  /\ properties = <<>>
  /\ metadata = EmptyMetadata
  /\ includeMetadata = TRUE
  /\ schema = generateSchema(<<>>, EmptyMetadata, TRUE)
  /\ parsed = Undefined
  /\ pc = "hook"
  /\ call = NoCall
  /\ dialog = NoDialog

\* a call that sets the state: the schema is recomputed from the new state
\* and the call is recorded: its name, the id or position it names, its
\* argument and, for updateProperty, what `exists` was
SetState(next, meta, op, at, arg) ==
  /\ properties' = next
  /\ metadata' = meta
  /\ schema' = generateSchema(next, meta, includeMetadata)
  /\ call' = [op |-> op, at |-> at, arg |-> arg,
              exists |-> op = "updateProperty"
                           /\ \E i \in 1..Len(properties) : properties[i].id = at]
  /\ UNCHANGED <<includeMetadata, parsed, pc, dialog>>

\* a call that sets the tree alone
SetProperties(next, op, at, arg) == SetState(next, metadata, op, at, arg)

\* updateProperty(id, property): the add dialog confirmed for the property
\* addProperty() made, or the call of a headless user
UpdateProperty ==
  \E id \in HookIds, ty \in HookTypes :
    /\ CountNodes(updateProperty(properties, id, NewProperty(id, ty))) <= MaxNodes
    /\ SetProperties(updateProperty(properties, id, NewProperty(id, ty)),
                     "updateProperty", id, NewProperty(id, ty))

\* the edit dialog of a rendered property saved with another type
EditProperty ==
  \E path \in RenderedPaths(properties) :
    \E updated \in {Edited(PropertyAt(properties, path), ty) : ty \in HookTypes} :
      SetProperties(Reported(properties, path, updated), "edit", path, updated)
  
\* deleteProperty(id): the delete button of a top-level property, or the
\* call of a headless user with any id
DeleteProperty ==
  \E id \in HookIds :
    /\ pc = "hook"
    /\ SetProperties(deleteProperty(properties, id), "deleteProperty", id, NoCall)

\* the delete button of a rendered child
DeleteChild ==
  \E path \in RenderedPaths(properties) :
    /\ Len(path) > 1 /\ Last(path) # 0
    /\ LET property == PropertyAt(properties, Parent(path))
       IN SetProperties(Reported(properties, Parent(path),
                                 deleteChild(property, property.children[Last(path)].id)),
                        "deleteChild", path, NoCall)

\* the delete button of a rendered items node
DeleteItems ==
  \E path \in RenderedPaths(properties) :
    /\ Len(path) > 1 /\ Last(path) = 0
    /\ SetProperties(Reported(properties, Parent(path),
                              WithoutItems(PropertyAt(properties, Parent(path)))),
                     "deleteItems", path, NoCall)

\* addChild on a rendered object and the child dialog confirmed
AddChild ==
  \E path \in RenderedPaths(properties), id \in HookIds, ty \in HookTypes :
    /\ PropertyAt(properties, path).type = "object"
    /\ CountNodes(properties) < MaxNodes
    /\ SetProperties(Reported(properties, path,
                              WithChild(PropertyAt(properties, path), NewProperty(id, ty))),
                     "addChild", path, NewProperty(id, ty))

\* the edit dialog of a rendered array saved after Add Item Schema
AddItemSchema ==
  \E path \in RenderedPaths(properties), now \in Times, random \in Randoms :
    /\ PropertyAt(properties, path).type = "array"
    /\ ~Has(PropertyAt(properties, path), "items")
    /\ CountNodes(properties) < MaxNodes
    /\ SetProperties(Reported(properties, path,
                              WithItems(PropertyAt(properties, path),
                                        NewItemSchema(itemSchemaId(now, random)))),
                     "addItemSchema", path, NewItemSchema(itemSchemaId(now, random)))

\* clearAll()
ClearAll ==
  /\ pc = "hook"
  /\ SetState(<<>>, EmptyMetadata, "clearAll", <<>>, NoCall)

\* a loadSchema that keeps the properties of the tree before the parsed ones
LoadSchemaMerged ==
  \E doc \in HookDocuments :
    /\ ~ParseThrows(doc)
    /\ \E ids \in [1..IdsNeeded(doc) -> HookIds] :
         SetState(properties \o parseSchema(doc, ids).properties, metadata,
                  "loadSchema", <<>>, doc)

\* loadSchema(schemaData), and importSchema() once the file is read, which
\* runs the same statements, for a document of a set: nothing is set when
\* parseSchema raises
LoadSchemaOf(docs) ==
  \E doc \in docs :
    IF ParseThrows(doc)
    THEN /\ call' = [op |-> "loadSchema", at |-> <<>>, arg |-> TypeError, exists |-> FALSE]
         /\ UNCHANGED <<properties, metadata, includeMetadata, schema, parsed, pc, dialog>>
    ELSE \E ids \in [1..IdsNeeded(doc) -> HookIds] :
           SetState(parseSchema(doc, ids).properties,
                    IF parseSchema(doc, ids).metadata # Undefined /\ includeMetadata
                    THEN parseSchema(doc, ids).metadata ELSE metadata,
                    "loadSchema", <<>>, doc)

LoadSchema ==
  /\ pc = "hook"
  /\ LoadSchemaOf(HookDocuments)

NextHook ==
  \/ UpdateProperty
  \/ EditProperty
  \/ DeleteProperty
  \/ DeleteChild
  \/ DeleteItems
  \/ AddChild
  \/ AddItemSchema
  \/ ClearAll
  \/ LoadSchema

SpecHook == InitHook /\ [][NextHook]_vars

----------------------------------------------------------------------------
(* useSchemaBuilder under the calls that set its metadata *)

\* the documents loaded: with and without a title, with and without a version
MetadataDocuments ==
  {JObj(<<Entry("type", JStr("object"))>>
        \o Opt(t # "", "title", JStr(t)) \o Opt(v # "", "version", JStr(v))) :
     t \in {"", "T"}, v \in {"", "2.0"}}

\* updateMetadata(field, value)
UpdateMetadata ==
  \E field \in {"title", "description", "version"}, value \in {"", "U"} :
    /\ pc = "hook"
    /\ SetState(properties, [metadata EXCEPT ![field] = value],
                "updateMetadata", field, value)

LoadMetadata ==
  /\ pc = "hook"
  /\ LoadSchemaOf(MetadataDocuments \cup HookDocuments)

NextMetadata ==
  \/ UpdateMetadata
  \/ LoadMetadata
  \/ ClearAll

SpecMetadata == InitHook /\ [][NextMetadata]_vars

----------------------------------------------------------------------------
(* C17 to C19: what one call changes in the tree *)

\* the tree with the node at a position replaced, every other node as it was
RECURSIVE ReplacedBelow(_, _, _)
ReplacedBelow(n, steps, new) ==
  IF steps = <<>> THEN new
  ELSE IF Head(steps) = 0
  THEN [n EXCEPT !.items = ReplacedBelow(@, Tail(steps), new)]
  ELSE [n EXCEPT !.children[Head(steps)] = ReplacedBelow(@, Tail(steps), new)]

Replaced(seq, path, new) ==
  [seq EXCEPT ![Head(path)] = ReplacedBelow(@, Tail(path), new)]

\* a sequence without its element at index i
RemoveAt(seq, i) == SubSeq(seq, 1, i - 1) \o SubSeq(seq, i + 1, Len(seq))

\* no two nodes of the tree, at any depth, have the same id
UniqueIds(seq) == Cardinality({n.id : n \in NodesOf(seq)}) = CountNodes(seq)

\* C17 as stated: an edit reported by the PropertyDocument at any position
\* leaves the tree with the node at that position replaced by the new value
\* and every other node where and as it was
C17_EditReplacesNode ==
  [][call'.op = "edit" => properties' = Replaced(properties, call'.at, call'.arg)]_vars

\* C18: updateProperty(id, node) with node.id = id, when no top-level property
\* has the id, appends node at the end and leaves every other property as it
\* was, and the same call made again leaves the list as it is
C18_UpdateAppendsOnce ==
  [][(/\ call'.op = "updateProperty"
      /\ call'.arg.id = call'.at
      /\ \A i \in 1..Len(properties) : properties[i].id # call'.at)
       => /\ properties' = Append(properties, call'.arg)
          /\ updateProperty(properties', call'.at, call'.arg) = properties']_vars

\* updateProperty found no property of the id and appended the node after
\* the property of another id that the list had
C18_Witness ==
  /\ call.op = "updateProperty" /\ ~call.exists
  /\ Len(properties) = 2
  /\ properties[2] = call.arg /\ call.arg.id = call.at
  /\ properties[1].id # call.at

\* C19 as stated: a delete removes the node it names and nothing else:
\* deleteProperty(id) the top-level property of that id, if there is one, the
\* delete button of a child that child, the delete button of an items node
\* the items of its parent
C19_DeleteRemovesNode ==
  [][/\ call'.op = "deleteProperty" =>
          IF \E i \in 1..Len(properties) : properties[i].id = call'.at
          THEN \E i \in 1..Len(properties) :
                 /\ properties[i].id = call'.at
                 /\ properties' = RemoveAt(properties, i)
          ELSE properties' = properties
     /\ call'.op = "deleteChild" =>
          properties' =
            Replaced(properties, Parent(call'.at),
                     [PropertyAt(properties, Parent(call'.at)) EXCEPT
                        !.children = RemoveAt(@, Last(call'.at))])
     /\ call'.op = "deleteItems" =>
          properties' =
            Replaced(properties, Parent(call'.at),
                     WithoutItems(PropertyAt(properties, Parent(call'.at))))]_vars

----------------------------------------------------------------------------
(* C20: the ids of the tree *)

\* C20 as stated: after any sequence of calls no two nodes of the tree, at
\* any depth, have the same id
C20_UniqueIds == UniqueIds(properties)

----------------------------------------------------------------------------
(* C21: loadSchema and the tree before it *)

\* C21: after loadSchema(doc), for a document parseSchema returns a result
\* for, from any tree, the tree is parseSchema(doc).properties with the ids
\* that parse drew: no property of the tree before it is kept or merged in
C21_LoadReplacesTree ==
  [][(call'.op = "loadSchema" /\ call'.arg # TypeError)
       => \E ids \in [1..IdsNeeded(call'.arg) -> HookIds] :
            properties' = parseSchema(call'.arg, ids).properties]_vars

\* a document of two properties was loaded and the tree is these two
C21_Witness ==
  /\ call.op = "loadSchema" /\ call.arg # TypeError
  /\ IdsNeeded(call.arg) = 2
  /\ Len(properties) = 2
  /\ properties[1].key = "a" /\ properties[2].key = "b"

----------------------------------------------------------------------------
(* The dialogs: useDialogManager, PropertyEditDialog and usePropertyEditor. *)
(* A string the dialog takes apart is handled as the sequence of its       *)
(* characters; Text and Characters convert between the two.                *)

MaxDialogProps == 1   \* most properties the tree holds under the dialogs

IsSpace(c) == c = " "

\* \w of the regular expressions
IsWord(c) == c \in {"A", "a", "b", "_"}

RECURSIVE Text(_)
Text(chars) == IF chars = <<>> THEN "" ELSE Head(chars) \o Text(Tail(chars))

\* the titles typed in: two words, special characters only, blank, and
\* a special character before a word
Titles == {<<"A", " ", "b">>, <<"!">>, <<" ">>}

\* the keys typed in
KeyTexts == {"", "k"}

\* the types chosen in the dialog
DialogTypes == {"string", "number"}

Characters(str) == CHOOSE chars \in Titles \cup {<<>>} : Text(chars) = str

RECURSIVE trimStart(_)
trimStart(chars) ==
  IF chars # <<>> /\ IsSpace(Head(chars)) THEN trimStart(Tail(chars)) ELSE chars

RECURSIVE trimEnd(_)
trimEnd(chars) ==
  IF chars # <<>> /\ IsSpace(chars[Len(chars)])
  THEN trimEnd(SubSeq(chars, 1, Len(chars) - 1))
  ELSE chars

\* String.prototype.trim
trim(chars) == trimEnd(trimStart(chars))

\* String.prototype.toLowerCase
toLowerCase(chars) == [i \in 1..Len(chars) |-> IF chars[i] = "A" THEN "a" ELSE chars[i]]

\* .replace(/[^\w\s]/g, "")
RemoveSpecial(chars) == SelectSeq(chars, LAMBDA c : IsWord(c) \/ IsSpace(c))

\* .replace(/\s+/g, "_")
RECURSIVE SpacesToUnderscores(_)
SpacesToUnderscores(chars) ==
  IF chars = <<>> THEN <<>>
  ELSE IF IsSpace(Head(chars)) THEN <<"_">> \o SpacesToUnderscores(trimStart(chars))
  ELSE <<Head(chars)>> \o SpacesToUnderscores(Tail(chars))

toSnakeCase(str) ==
  Text(SpacesToUnderscores(RemoveSpecial(toLowerCase(trim(Characters(str))))))

\* usePropertyEditor: what each handler hands to onUpdate, the property
\* itself when it calls nothing
handleFieldChange(property, field, value) ==
  [f \in DOMAIN property \cup {field} |-> IF f = field THEN value ELSE property[f]]

handleTitleChange(property, title) == handleFieldChange(property, "title", title)

\* a handleTitleBlur that derives the key for every property
handleTitleBlurAlways(property, isNewProperty) ==
  IF Has(property, "title") /\ property.title # ""
  THEN handleFieldChange(property, "key", toSnakeCase(property.title))
  ELSE property

handleTitleBlur(property, isNewProperty) ==
  IF isNewProperty /\ Has(property, "title") /\ property.title # ""
  THEN handleFieldChange(property, "key", toSnakeCase(property.title))
  ELSE property

handleKeyChange(property, isNewProperty, key) ==
  IF isNewProperty THEN handleFieldChange(property, "key", key) ELSE property

handleConstraintChange(property, field, value) ==
  [f \in DOMAIN property \cup {field} |-> IF f = field THEN value ELSE property[f]]

\* a test of the title that does not trim it
HasTitleUntrimmed(property) == Has(property, "title") /\ property.title # ""

\* localProperty.title?.trim() is truthy
HasTitle(property) ==
  Has(property, "title") /\ trim(Characters(property.title)) # <<>>

\* addProperty() of useSchemaBuilder, the createInitialData of the add dialog
createProperty(id) == [id |-> id, key |-> "", type |-> "string", required |-> FALSE]

\* the add dialog is the dialog of isNewProperty
IsNewProperty(d) == d.kind = "add"

\* the options given to the manager: the add dialog's manager has its
\* callbacks, the edit dialog's manager is made without options
HasOptions(d) == d.kind = "add"

\* a PropertyEditDialog is rendered open: the add dialog under
\* `isOpen && data`, the edit dialog of a PropertyDocument always
Rendered(d) ==
  IF d.kind = "add" THEN d.isOpen /\ d.data # JNull ELSE d.isOpen

\* the property prop of the rendered dialog
PropertyProp(d) ==
  IF d.data # JNull THEN d.data ELSE properties[d.at]

\* the manager with nothing open, before any event
AtRest ==
  [kind |-> "add", at |-> 0, isOpen |-> FALSE, data |-> JNull, local |-> JNull,
   event |-> "none", onSave |-> JNull, onConfirm |-> 0, onCancel |-> 0]

\* an event begins: what the last event called is forgotten
Begin(d, event) ==
  [d EXCEPT !.event = event, !.onSave = JNull, !.onConfirm = 0, !.onCancel = 0]

\* useDialogManager: open, close, confirm and handleSetIsOpen
open(d, initialData) == [d EXCEPT !.data = initialData, !.isOpen = TRUE]

close(d) ==
  [d EXCEPT !.isOpen = FALSE, !.data = JNull,
            !.onCancel = IF HasOptions(d) THEN @ + 1 ELSE @]

confirm(d, confirmedData) ==
  [d EXCEPT !.onConfirm = IF HasOptions(d) THEN @ + 1 ELSE @,
            !.isOpen = FALSE, !.data = JNull]

handleSetIsOpen(d, newIsOpen) ==
  IF ~newIsOpen THEN close(d) ELSE [d EXCEPT !.isOpen = TRUE]

\* the local copy once the event is over: the add dialog is unmounted when
\* not rendered, the edit dialog's effect copies the property when the
\* dialog has just opened
Settled(before, d) ==
  IF d.kind = "add"
  THEN (IF Rendered(d) THEN d ELSE [d EXCEPT !.local = JNull])
  ELSE IF d.isOpen /\ ~before.isOpen THEN [d EXCEPT !.local = PropertyProp(d)]
  ELSE d

InitDialog ==
  /\ properties = <<>>
  /\ metadata = EmptyMetadata
  /\ includeMetadata = TRUE
  /\ schema = generateSchema(<<>>, EmptyMetadata, TRUE)
  /\ parsed = Undefined
  /\ pc = "dialog"
  /\ call = NoCall
  /\ dialog = AtRest

\* an event that leaves the tree alone
DialogOnly(d) ==
  /\ dialog' = d
  /\ UNCHANGED <<properties, metadata, includeMetadata, schema, parsed, pc, call>>

\* an event in which updateProperty(id, updated) is called
DialogUpdate(d, id, updated) ==
  /\ dialog' = d
  /\ properties' = updateProperty(properties, id, updated)
  /\ schema' = generateSchema(updateProperty(properties, id, updated),
                              metadata, includeMetadata)
  /\ call' = [op |-> "updateProperty", at |-> id, arg |-> updated,
              exists |-> \E i \in 1..Len(properties) : properties[i].id = id]
  /\ UNCHANGED <<metadata, includeMetadata, parsed, pc>>

\* the add button: addPropertyDialog.open()
OpenAdd ==
  \E id \in HookIds :
    /\ pc = "dialog"
    /\ ~Rendered(dialog)
    /\ Len(properties) < MaxDialogProps
    /\ DialogOnly([open(Begin(AtRest, "open"), createProperty(id)) EXCEPT
                     !.local = createProperty(id)])

\* the edit button of a top-level property: editDialog.open(property)
OpenEdit ==
  \E i \in 1..Len(properties) :
    /\ pc = "dialog"
    /\ ~dialog.isOpen
    /\ DialogOnly(Settled(dialog,
                          open([Begin(dialog, "open") EXCEPT !.kind = "edit", !.at = i],
                               properties[i])))

\* setIsOpen(newIsOpen): the Dialog's own onOpenChange, or a caller's
SetIsOpen ==
  \E newIsOpen \in BOOLEAN :
    /\ pc = "dialog"
    /\ DialogOnly(Settled(dialog, handleSetIsOpen(Begin(dialog, "setIsOpen"), newIsOpen)))

\* close()
Close ==
  /\ pc = "dialog"
  /\ DialogOnly(Settled(dialog, close(Begin(dialog, "close"))))

TitleChange ==
  \E title \in Titles \cup {<<>>} :
    /\ pc = "dialog"
    /\ Rendered(dialog)
    /\ DialogOnly([Begin(dialog, "edit") EXCEPT
                     !.local = handleTitleChange(@, Text(title))])

TitleBlur ==
  /\ pc = "dialog"
  /\ Rendered(dialog)
  /\ DialogOnly([Begin(dialog, "edit") EXCEPT
                   !.local = handleTitleBlur(@, IsNewProperty(dialog))])

KeyChange ==
  \E key \in KeyTexts :
    /\ pc = "dialog"
    /\ Rendered(dialog)
    /\ DialogOnly([Begin(dialog, "edit") EXCEPT
                     !.local = handleKeyChange(@, IsNewProperty(dialog), key)])

FieldChange ==
  \E type \in DialogTypes :
    /\ pc = "dialog"
    /\ Rendered(dialog)
    /\ DialogOnly([Begin(dialog, "edit") EXCEPT
                     !.local = handleFieldChange(@, "type", type)])

ConstraintChange ==
  /\ pc = "dialog"
  /\ Rendered(dialog)
  /\ DialogOnly([Begin(dialog, "edit") EXCEPT
                   !.local = handleConstraintChange(@, "minLength", 1)])

\* handleSave: the add dialog's onSave is confirm, whose onConfirm calls
\* updateProperty; the edit dialog's onSave calls onUpdate, which is
\* updateProperty with the id of the rendered property, and close; then
\* onOpenChange(false), which is setIsOpen of the manager
Save ==
  /\ pc = "dialog"
  /\ Rendered(dialog)
  /\ LET saved == [Begin(dialog, "save") EXCEPT !.onSave = dialog.local]
     IN IF ~HasTitle(dialog.local)
        THEN DialogOnly(Begin(dialog, "save"))
        ELSE IF dialog.kind = "add"
        THEN DialogUpdate(Settled(dialog, handleSetIsOpen(confirm(saved, dialog.local), FALSE)),
                          dialog.local.id, dialog.local)
        ELSE DialogUpdate(Settled(dialog, handleSetIsOpen(close(saved), FALSE)),
                          properties[dialog.at].id, dialog.local)

\* handleCancel
Cancel ==
  /\ pc = "dialog"
  /\ Rendered(dialog)
  /\ DialogOnly(Settled(dialog,
                        handleSetIsOpen([Begin(dialog, "cancel") EXCEPT
                                           !.local = PropertyProp(dialog)], FALSE)))

NextDialog ==
  \/ OpenAdd
  \/ OpenEdit
  \/ SetIsOpen
  \/ Close
  \/ TitleChange
  \/ TitleBlur
  \/ KeyChange
  \/ FieldChange
  \/ ConstraintChange
  \/ Save
  \/ Cancel

SpecDialog == InitDialog /\ [][NextDialog]_vars

----------------------------------------------------------------------------
(* C22: the callbacks of a managed dialog *)

\* C22 as stated: for the dialog whose manager has its callbacks, a Save
\* that saves invokes onConfirm exactly once and onCancel not at all, and
\* onCancel is invoked only by a close without saving (Cancel, close or
\* setIsOpen(false)), once
C22_SaveConfirmsOnce ==
  HasOptions(dialog) =>
    /\ (dialog.event = "save" /\ dialog.onSave # JNull)
         => dialog.onConfirm = 1 /\ dialog.onCancel = 0
    /\ dialog.onCancel > 0
         => dialog.event \in {"cancel", "close", "setIsOpen"} /\ dialog.onCancel = 1

----------------------------------------------------------------------------
(* C23: the local copy of PropertyEditDialog *)

\* C23: onSave is invoked only by Save, only when the title of the local
\* copy is not blank, and with the local copy; an edit in the dialog changes
\* neither the tree nor the schema nor the property the dialog was opened
\* with; Cancel closes the dialog without onSave and leaves the tree and
\* the schema as they were, and the edit dialog opened again shows the
\* property of the tree
C23_EditsAreLocal ==
  [][/\ dialog'.onSave # JNull
          => /\ dialog'.event = "save"
             /\ Has(dialog.local, "title")
             /\ trim(Characters(dialog.local.title)) # <<>>
             /\ dialog'.onSave = dialog.local
     /\ dialog'.event = "edit"
          => /\ properties' = properties /\ schema' = schema
             /\ dialog'.data = dialog.data
     /\ dialog'.event = "cancel"
          => /\ dialog'.onSave = JNull /\ ~dialog'.isOpen
             /\ properties' = properties /\ schema' = schema
     /\ (dialog'.event = "open" /\ dialog'.kind = "edit")
          => dialog'.local = properties[dialog'.at]]_vars

\* the edit dialog of a property is open, its title and type were changed
\* in the dialog, and the property of the tree is as it was opened
C23_Witness ==
  /\ dialog.kind = "edit" /\ Rendered(dialog) /\ dialog.event = "edit"
  /\ dialog.data = properties[dialog.at]
  /\ dialog.local.title # dialog.data.title
  /\ dialog.local.type # dialog.data.type

----------------------------------------------------------------------------
(* C24: the key of a property that exists *)

----------------------------------------------------------------------------
(* C25: the children and the items of a node whose type changes *)

\* the path of the document at which the fragment of the node at a position
\* of the tree stands
RECURSIVE DocPathBelow(_, _)
DocPathBelow(property, steps) ==
  IF steps = <<>> THEN <<>>
  ELSE IF Head(steps) = 0
  THEN <<ItemsStep>> \o DocPathBelow(property.items, Tail(steps))
  ELSE <<<<"p", property.children[Head(steps)].key>>>>
         \o DocPathBelow(property.children[Head(steps)], Tail(steps))

DocPath(seq, path) ==
  <<<<"p", seq[Head(path)].key>>>> \o DocPathBelow(seq[Head(path)], Tail(path))

\* the node at a position, and each of its ancestors, is the last of its
\* siblings with its key, so that the fragment at its path is its own
RECURSIVE OwnsBelow(_, _)
OwnsBelow(property, steps) ==
  \/ steps = <<>>
  \/ Head(steps) = 0 /\ OwnsBelow(property.items, Tail(steps))
  \/ /\ Head(steps) # 0
     /\ OwnerOf(property.children, property.children[Head(steps)].key)
          = property.children[Head(steps)]
     /\ OwnsBelow(property.children[Head(steps)], Tail(steps))

Owns(seq, path) ==
  /\ OwnerOf(seq, seq[Head(path)].key) = seq[Head(path)]
  /\ OwnsBelow(seq[Head(path)], Tail(path))

\* C25: an edit that changes the type of a node keeps its children and its
\* items on the node.  When the node has children, its fragment in the
\* new document has no properties and no required while the type is not
\* object, and the properties built from these children when the type is
\* object again; when it has items, the fragment has no items while the
\* type is not array, and the items schema of these items when it is
C25_TypeChangeKeeps ==
  [][call'.op = "edit" =>
       LET before == PropertyAt(properties, call'.at)
           after == PropertyAt(properties', call'.at)
           frag == FragAt(schema', DocPath(properties', call'.at))
       IN Owns(properties', call'.at) =>
            /\ Has(before, "children")
                 => /\ Has(after, "children") /\ after.children = before.children
                    /\ (after.type # "object")
                         => /\ Get(frag, "properties") = Undefined
                            /\ Get(frag, "required") = Undefined
                    /\ (after.type = "object" /\ Len(before.children) > 0)
                         => Get(frag, "properties") = buildProperties(before.children)
            /\ Has(before, "items")
                 => /\ Has(after, "items") /\ after.items = before.items
                    /\ (after.type # "array") => Get(frag, "items") = Undefined
                    /\ (after.type = "array")
                         => Get(frag, "items") = propSchema(before.items)]_vars

\* the type of a node that has a child was changed to string: the child is
\* still on the node and its fragment has no properties
C25_Witness ==
  /\ call.op = "edit"
  /\ call.arg.type = "string"
  /\ Has(call.arg, "children") /\ Len(call.arg.children) = 1
  /\ PropertyAt(properties, call.at) = call.arg
  /\ Get(FragAt(schema, DocPath(properties, call.at)), "properties") = Undefined

----------------------------------------------------------------------------
(* C26: the key of a property the add dialog saves *)

\* C26 as stated: every property the add dialog hands to onSave has a key
\* that is not empty, and is in the generated schema under that key
C26_SavedKeyNotEmpty ==
  (dialog.kind = "add" /\ dialog.event = "save" /\ dialog.onSave # JNull)
    => /\ dialog.onSave.key # ""
       /\ Get(Get(schema, "properties"), dialog.onSave.key) # Undefined

----------------------------------------------------------------------------
(* C27: the state of useDialogManager *)

\* C27 as stated: in every state of the manager isOpen implies that data is
\* not null, and after close or confirm isOpen is false and data is null
C27_OpenHasData ==
  /\ dialog.isOpen => dialog.data # JNull
  /\ (dialog.event \in {"close", "cancel"} \/ dialog.onConfirm > 0)
       => ~dialog.isOpen /\ dialog.data = JNull

----------------------------------------------------------------------------
(* C28: generate, parse, generate *)

\* C28 as stated: for every document d = generateSchema(tree, metadata,
\* true), generateSchema(parseSchema(d).properties, parseSchema(d).metadata,
\* true) is d
C28_GenerateFixedPoint ==
  (pc = "parsed" /\ includeMetadata /\ parsed # TypeError)
    => generateSchema(parsed.properties, parsed.metadata, TRUE) = schema

----------------------------------------------------------------------------
(* C30: the required array and the properties map *)

\* the entries of a required array, the empty sequence when it is absent
RequiredOf(obj) ==
  IF Get(obj, "required") = Undefined THEN <<>> ELSE Get(obj, "required").v

\* C30 as stated: at every level of the document each key of `required` is
\* a key of the sibling `properties` map, is listed once, and the property
\* whose fragment stands under that key has required = true
C30_RequiredConsistent ==
  pc # "start" =>
    \A lv \in Levels(properties, schema) :
      LET required == RequiredOf(lv[2])
      IN /\ \A i \in 1..Len(required) :
              /\ Get(Get(lv[2], "properties"), required[i].v) # Undefined
              /\ OwnerOf(lv[1], required[i].v).required
         /\ \A i, j \in 1..Len(required) : required[i] = required[j] => i = j

----------------------------------------------------------------------------
(* C29: the metadata after loadSchema *)

\* the title, description and version a hook generates when the document
\* is the first thing it is given
MetadataAlone(doc) ==
  generateSchema(<<>>, IF HasMetadata(doc) THEN ParsedMetadata(doc) ELSE EmptyMetadata,
                 TRUE)

\* C29 as stated: after loadSchema(doc) with includeMetadata true the title,
\* description and version of the generated schema are those of the document
\* alone, and absent when the document has none of the three
C29_MetadataFromDocument ==
  [][(call'.op = "loadSchema" /\ call'.arg # TypeError /\ includeMetadata)
       => \A f \in {"title", "description", "version"} :
            /\ Get(schema', f) = Get(MetadataAlone(call'.arg), f)
            /\ ~HasMetadata(call'.arg) => Get(schema', f) = Undefined]_vars

====
